---- MODULE Spec2Model ----
(***************************************************************************)
(* Model of the Kafka stock producer of src/main.go: the mean-reverting     *)
(* price generator, the construction and marshalling of one message per    *)
(* timer tick, the hand-off to the Kafka producer, and the two consumers of *)
(* the producer's event channel (deliveryReportHandler and main's select).  *)
(*                                                                         *)
(* float64 prices are fixed-point numbers with a resolution of 1/10000 of  *)
(* a currency unit.  TLC's integers are 32 bits wide and a price whose     *)
(* cents exceed the int32 range does not fit one of them, so a number is a  *)
(* record [hi, lo] standing for hi * Limb + lo with 0 <= lo < Limb.         *)
(***************************************************************************)
EXTENDS Integers, Sequences, FiniteSets, TLC

\* ------------------------------------------------------------- bounds
\* Number of times the time.Ticker fires in a run.
MaxTicks == 2

\* ------------------------------------------------------------ numbers
\* Fixed-point units per currency unit (resolution of a modelled float64).
Unit == 100 * 100
\* One limb of a number: 100 currency units.
Limb == 100 * Unit

Norm(h, l) == [hi |-> h + (l \div Limb), lo |-> l % Limb]
Num(units) == Norm(0, units)
Add(a, b) == Norm(a.hi + b.hi, a.lo + b.lo)
Sub(a, b) == Norm(a.hi - b.hi, a.lo - b.lo)
\* a * k for a small positive integer k.
Scale(a, k) == Norm(a.hi * k, a.lo * k)
\* a / d for a small positive integer d, rounded to the nearest multiple of
\* the resolution (float64 arithmetic rounds to nearest).
Quot(a, d) ==
    Norm(a.hi \div d, ((a.hi % d) * Limb + a.lo + d \div 2) \div d)
IsNeg(a) == a.hi < 0
IsZero(a) == a.hi = 0 /\ a.lo = 0
LeqZero(a) == IsNeg(a) \/ IsZero(a)
Positive(a) == ~LeqZero(a)

\* ---------------------------------------------------------- constants
\* MEAN_PRICE = 100.0
MEAN_PRICE == Num(100 * Unit)
\* REVERSION_RATE = 0.05, as the divisor 1 / 0.05.
REVERSION_DIV == 20
\* VOLATILITY = 5.0
VOLATILITY == 5
\* The literal 0.01 of generatePrice.
FLOOR_PRICE == Num(Unit \div 100)

allowedTickers == {"STK_ONE", "STK_TWO"}
allowedFormats == {"json", "protobuf"}

MaxInt32 == 2147483647
MinInt32 == (-2147483647) - 1

\* ------------------------------------------------------------- inputs
\* Command lines tried, as << -ticker, -format, -rate >>: two that start
\* the loop (both tickers, both formats, a divisor and a non-divisor rate
\* of 1000), and one for each way a flag can be out of range.
CommandLines ==
    { << "STK_ONE", "protobuf", 3 >>,
      << "STK_TWO", "json", 7 >>,
      << "STK_BAD", "json", 3 >>,
      << "STK_ONE", "xml", 3 >>,
      << "STK_ONE", "Protobuf", 7 >>,
      << "STK_TWO", "json", 0 >>,
      << "STK_ONE", "protobuf", -1 >>,
      << "STK_TWO", "protobuf", 1001 >> }

\* Samples of rand.NormFloat64() tried (documented range: every finite
\* float64):  0,  -19.999,  -20  and  6000000.
NormSamples ==
    { Num(0), Num(-199990), Num(-200000), Norm(60000, 0) }

VARIABLES
    tickerName,     \* flag -ticker
    formatType,     \* flag -format
    rateMsgsPs,     \* flag -rate
    pc,             \* position of the main goroutine
    currentPrice,   \* state of the price generator
    steps,          \* the calls of generatePrice: [before, sample, after, at]
    producer,       \* the *kafka.Producer: "none", "open", "closed"
    interval,       \* the ticker's interval in ms, 0 before NewTicker
    tickPending,    \* a tick is buffered in ticker.C
    fired,          \* number of ticks the ticker has put in ticker.C
    now,            \* the wall clock
    msgs,           \* the messages built so far, one per handled tick
    inflight,       \* messages accepted by Produce, not yet reported
    events,         \* the producer's Events() channel
    tpc,            \* position of the deliveryReportHandler goroutine
    tev,            \* the event deliveryReportHandler is handling
    drained,        \* events received by deliveryReportHandler
    discarded,      \* events received by main's select
    logs            \* log lines written, as [kind, id]

vars == << tickerName, formatType, rateMsgsPs, pc, currentPrice, steps, producer,
           interval, tickPending, fired, now, msgs, inflight, events, tpc,
           tev, drained, discarded, logs >>

config == << tickerName, formatType, rateMsgsPs >>
tracker == << tpc, tev, drained >>

NoEvent == [id |-> 0, err |-> FALSE]

\* The process has ended: os.Exit(1), a panic that reached the top of main,
\* or the default action of a termination signal.
Exited == pc \in {"exit1", "crashed", "killed"}
Alive == ~Exited

\* init() and flag.Parse(): flags hold the command line, the price starts
\* at the mean.
Init ==
    /\ \E args \in CommandLines :
         /\ tickerName = args[1]
         /\ formatType = args[2]
         /\ rateMsgsPs = args[3]
    /\ pc = "validate"
    /\ currentPrice = MEAN_PRICE
    /\ steps = << >>
    /\ producer = "none"
    /\ interval = 0
    /\ tickPending = FALSE
    /\ fired = 0
    /\ now = 0
    /\ msgs = << >>
    /\ inflight = {}
    /\ events = << >>
    /\ tpc = "none"
    /\ tev = NoEvent
    /\ drained = {}
    /\ discarded = {}
    /\ logs = {}

\* ------------------------------------------------------------ startup
isValidTicker == tickerName \in allowedTickers
isValidFormat == formatType \in allowedFormats

\* main: the two validation blocks, each ending in os.Exit(1).
Validate ==
    /\ pc = "validate"
    /\ pc' = IF isValidTicker /\ isValidFormat THEN "newProducer" ELSE "exit1"
    /\ UNCHANGED << config, currentPrice, steps, producer, interval, tickPending,
                    fired, now, msgs, inflight, events, tracker, discarded,
                    logs >>

\* main: kafka.NewProducer, os.Exit(1) on error, defer p.Close().
NewProducer ==
    /\ pc = "newProducer"
    /\ \E ok \in BOOLEAN :
         IF ok
         THEN producer' = "open" /\ pc' = "goTracker"
         ELSE producer' = producer /\ pc' = "exit1"
    /\ UNCHANGED << config, currentPrice, steps, interval, tickPending, fired, now,
                    msgs, inflight, events, tracker, discarded, logs >>

\* main: go deliveryReportHandler(p).
StartTracker ==
    /\ pc = "goTracker"
    /\ tpc' = "wait"
    /\ pc' = "newTicker"
    /\ UNCHANGED << config, currentPrice, steps, producer, interval, tickPending,
                    fired, now, msgs, inflight, events, tev, drained,
                    discarded, logs >>

\* Integer division rounding away from zero.
GoDivUp(a, b) ==
    IF (a >= 0) = (b > 0)
    THEN ((IF a >= 0 THEN a ELSE -a) + (IF b > 0 THEN b ELSE -b) - 1)
             \div (IF b > 0 THEN b ELSE -b)
    ELSE -(((IF a >= 0 THEN a ELSE -a) + (IF b > 0 THEN b ELSE -b) - 1)
             \div (IF b > 0 THEN b ELSE -b))

\* Go's integer division truncates toward zero.
GoDiv(a, b) ==
    IF (a >= 0) = (b > 0)
    THEN (IF a >= 0 THEN a ELSE -a) \div (IF b > 0 THEN b ELSE -b)
    ELSE -((IF a >= 0 THEN a ELSE -a) \div (IF b > 0 THEN b ELSE -b))

\* main: interval := 1000/rateMsgsPs ms; time.NewTicker(interval).  The
\* division panics for a zero rate and NewTicker panics for a non-positive
\* interval.
NewTicker ==
    /\ pc = "newTicker"
    /\ IF rateMsgsPs = 0
       THEN pc' = "panic" /\ interval' = interval
       ELSE IF GoDiv(1000, rateMsgsPs) <= 0
            THEN pc' = "panic" /\ interval' = interval
            ELSE pc' = "select" /\ interval' = GoDiv(1000, rateMsgsPs)
    /\ UNCHANGED << config, currentPrice, steps, producer, tickPending, fired, now,
                    msgs, inflight, events, tracker, discarded, logs >>

\* A panic unwinds main: the deferred p.Close() runs (ticker.Stop() is not
\* yet deferred when NewTicker panics) and closes the event channel.
RunDeferred ==
    /\ pc = "panic"
    /\ producer' = "closed"
    /\ pc' = "unwound"
    /\ UNCHANGED << config, currentPrice, steps, interval, tickPending, fired, now,
                    msgs, inflight, events, tracker, discarded, logs >>

\* The runtime reports the panic and ends the process with status 2.
Abort ==
    /\ pc = "unwound"
    /\ pc' = "crashed"
    /\ UNCHANGED << config, currentPrice, steps, producer, interval, tickPending,
                    fired, now, msgs, inflight, events, tracker, discarded,
                    logs >>

\* ------------------------------------------------------ price process
\* generatePrice with the floor applied to negative values only.
generatePriceFloorNegative(current, sample) ==
    LET raw == Add(current,
                   Add(Quot(Sub(MEAN_PRICE, current), REVERSION_DIV),
                       Scale(sample, VOLATILITY)))
    IN  IF IsNeg(raw) THEN FLOOR_PRICE ELSE raw

\* generatePrice with the pull computed from the mean instead of from the
\* difference to the mean.
generatePriceMeanPull(current, sample) ==
    LET raw == Add(current,
                   Add(Quot(MEAN_PRICE, REVERSION_DIV),
                       Scale(sample, VOLATILITY)))
    IN  IF LeqZero(raw) THEN FLOOR_PRICE ELSE raw

\* generatePrice with 0 as the floor.
generatePriceFloorZero(current, sample) ==
    LET raw == Add(current,
                   Add(Quot(Sub(MEAN_PRICE, current), REVERSION_DIV),
                       Scale(sample, VOLATILITY)))
    IN  IF LeqZero(raw) THEN Num(0) ELSE raw

\* generatePrice with the difference taken as current - MEAN_PRICE: the
\* pull points away from the mean.
generatePriceAwayFromMean(current, sample) ==
    LET raw == Add(current,
                   Add(Quot(Sub(current, MEAN_PRICE), REVERSION_DIV),
                       Scale(sample, VOLATILITY)))
    IN  IF LeqZero(raw) THEN FLOOR_PRICE ELSE raw

\* generatePrice: the new value of currentPrice (also the value returned)
\* for one sample of rand.NormFloat64().
generatePrice(current, sample) ==
    LET diffFromMean == Sub(MEAN_PRICE, current)
        meanReversionPull == Quot(diffFromMean, REVERSION_DIV)
        randomStep == Scale(sample, VOLATILITY)
        priceChange == Add(meanReversionPull, randomStep)
        raw == Add(current, priceChange)
    IN  IF LeqZero(raw) THEN FLOOR_PRICE ELSE raw

\* ---------------------------------------------------------- conversion
UnitsPerCent == Unit \div 100
CentsPerLimb == Limb \div UnitsPerCent
Neg(a) == Sub(Num(0), a)
Mag(a) == IF IsNeg(a) THEN Neg(a) ELSE a

\* priceFloat * 100 lies in the int32 range (magnitudes up to MaxInt32).
FitsInt32(p) ==
    LET m == Mag(p)
    IN  \/ m.hi < MaxInt32 \div CentsPerLimb
        \/ /\ m.hi = MaxInt32 \div CentsPerLimb
           /\ m.lo \div UnitsPerCent <= MaxInt32 % CentsPerLimb

\* priceFloat * 100 with the fraction dropped (truncation toward zero).
TruncCents(p) ==
    LET m == Mag(p)
        c == m.hi * CentsPerLimb + m.lo \div UnitsPerCent
    IN  IF IsNeg(p) THEN -c ELSE c

\* int32(priceFloat * 100): the conversion truncates toward zero; for a
\* value outside the int32 range the result is implementation-dependent
\* (0x80000000 on amd64, saturation on arm64) and no error is raised.
Int32Of(p) ==
    IF FitsInt32(p) THEN {TruncCents(p)} ELSE {MinInt32, MaxInt32}

\* ------------------------------------------------------ the main loop
\* The runtime timer sends on ticker.C (capacity 1).  A tick that finds the
\* buffer full is dropped and changes nothing; fired counts the others.
\* The wall clock advances between two ticks.  (Steps of the wall clock
\* backwards and clocks too coarse to separate two ticks are not modelled.)
TimerFire ==
    /\ Alive
    /\ interval > 0
    /\ ~tickPending
    /\ fired < MaxTicks
    /\ fired' = fired + 1
    /\ now' = now + 1
    /\ tickPending' = TRUE
    /\ UNCHANGED << config, pc, currentPrice, steps, producer, interval, msgs,
                    inflight, events, tracker, discarded, logs >>

NoValue == [none |-> TRUE]

\* The state a message is in: the last state of its trail.
Status(m) == m.trail[Len(m.trail)]

\* The bytes proto.Marshal or json.Marshal return for message m.
Marshalled(m) ==
    IF formatType = "protobuf"
    THEN [timestamp |-> m.nanos, price |-> m.priceInt]
    ELSE [ticker |-> tickerName, timestamp |-> m.nanos,
          price |-> m.priceFloat]

\* produceMessage, first part: the price returned by generatePrice, its
\* int32 conversion, the reading of time.Now().UnixNano(), and the
\* pb.StockUpdate built from them.
newMessage(priceFloat, priceInt, nanos) ==
    [trail |-> << "Created" >>, priceFloat |-> priceFloat,
     priceInt |-> priceInt, nanos |-> nanos, value |-> NoValue,
     topic |-> "", key |-> ""]

\* marshal without the return after a marshalling error: the function goes
\* on to p.Produce.
marshalNoReturn(m, err) ==
    IF err
    THEN [m EXCEPT !.trail = @ \o << "MarshalFailed", "Encoded" >>,
                   !.value = Marshalled(m)]
    ELSE [m EXCEPT !.trail = Append(@, "Encoded"), !.value = Marshalled(m)]

\* produceMessage, second part: marshalling in the configured format; on
\* error the function returns.
marshal(m, err) ==
    IF err
    THEN [m EXCEPT !.trail = Append(@, "MarshalFailed")]
    ELSE [m EXCEPT !.trail = Append(@, "Encoded"), !.value = Marshalled(m)]

\* produce calling p.Produce again after an error.
produceWithRetry(m, err) ==
    [m EXCEPT !.trail = IF err THEN @ \o << "EnqueueFailed", "Enqueued" >>
                               ELSE Append(@, "Enqueued"),
              !.topic = tickerName, !.key = tickerName]

\* produce giving p.Produce a message without a key.
produceNoKey(m, err) ==
    [m EXCEPT !.trail = Append(@, IF err THEN "EnqueueFailed" ELSE "Enqueued"),
              !.topic = tickerName]

\* produceMessage, last part: one call of p.Produce with topic and key set
\* to the ticker; an error is logged and nothing else is done.
produce(m, err) ==
    [m EXCEPT !.trail = Append(@, IF err THEN "EnqueueFailed" ELSE "Enqueued"),
              !.topic = tickerName, !.key = tickerName]

\* produceMessage: the message a tick ends with.
produceMessage(priceFloat, priceInt, nanos, marshalErr, produceErr) ==
    LET encoded == marshal(newMessage(priceFloat, priceInt, nanos), marshalErr)
    IN  IF Status(encoded) = "Encoded"
        THEN produce(encoded, produceErr)
        ELSE encoded

\* Message m entered state st.
Has(m, st) == \E k \in 1..Len(m.trail) : m.trail[k] = st

\* The log lines produceMessage writes for message id.
produceLog(id, m) ==
    { [kind |-> l[2], id |-> id] :
        l \in { l \in { << "MarshalFailed", "marshal_failed" >>,
                        << "Encoded", "produced" >>,
                        << "EnqueueFailed", "produce_failed" >> } :
                Has(m, l[1]) } }

\* Tick with a fatal log call on the enqueue error: the process exits.
TickFatal ==
    /\ pc = "select"
    /\ tickPending
    /\ tickPending' = FALSE
    /\ \E sample \in NormSamples, marshalErr \in BOOLEAN, produceErr \in BOOLEAN :
         LET priceFloat == generatePrice(currentPrice, sample)
         IN  \E priceInt \in Int32Of(priceFloat) :
               LET m == produceMessage(priceFloat, priceInt, now,
                                       marshalErr, produceErr)
                   id == Len(msgs) + 1
               IN  /\ currentPrice' = priceFloat
                   /\ steps' = Append(steps, [before |-> currentPrice,
                                               sample |-> sample,
                                               after |-> priceFloat,
                                               at |-> now])
                   /\ msgs' = Append(msgs, m)
                   /\ logs' = logs \cup produceLog(id, m)
                   /\ inflight' = IF Status(m) = "Enqueued"
                                  THEN inflight \cup {id}
                                  ELSE inflight
                   /\ pc' = IF Status(m) = "EnqueueFailed"
                            THEN "exit1" ELSE "select"
    /\ UNCHANGED << config, producer, interval, fired, now, events, tracker,
                    discarded >>

\* Tick that waits for deliveryReportHandler to finish the event it holds.
TickBlocked ==
    /\ pc = "select"
    /\ tickPending
    /\ tpc = "wait"
    /\ tickPending' = FALSE
    /\ \E sample \in NormSamples, marshalErr \in BOOLEAN, produceErr \in BOOLEAN :
         LET priceFloat == generatePrice(currentPrice, sample)
         IN  \E priceInt \in Int32Of(priceFloat) :
               LET m == produceMessage(priceFloat, priceInt, now,
                                       marshalErr, produceErr)
                   id == Len(msgs) + 1
               IN  /\ currentPrice' = priceFloat
                   /\ steps' = Append(steps, [before |-> currentPrice,
                                               sample |-> sample,
                                               after |-> priceFloat,
                                               at |-> now])
                   /\ msgs' = Append(msgs, m)
                   /\ logs' = logs \cup produceLog(id, m)
                   /\ inflight' = IF Status(m) = "Enqueued"
                                  THEN inflight \cup {id}
                                  ELSE inflight
    /\ pc' = "select"
    /\ UNCHANGED << config, producer, interval, fired, now, events, tracker,
                    discarded >>

\* main: select, case <-ticker.C: produceMessage(p, formatType), then the
\* loop selects again.
Tick ==
    /\ pc = "select"
    /\ tickPending
    /\ tickPending' = FALSE
    /\ \E sample \in NormSamples, marshalErr \in BOOLEAN, produceErr \in BOOLEAN :
         LET priceFloat == generatePrice(currentPrice, sample)
         IN  \E priceInt \in Int32Of(priceFloat) :
               LET m == produceMessage(priceFloat, priceInt, now,
                                       marshalErr, produceErr)
                   id == Len(msgs) + 1
               IN  /\ currentPrice' = priceFloat
                   /\ steps' = Append(steps, [before |-> currentPrice,
                                               sample |-> sample,
                                               after |-> priceFloat,
                                               at |-> now])
                   /\ msgs' = Append(msgs, m)
                   /\ logs' = logs \cup produceLog(id, m)
                   /\ inflight' = IF Status(m) = "Enqueued"
                                  THEN inflight \cup {id}
                                  ELSE inflight
    /\ pc' = "select"
    /\ UNCHANGED << config, producer, interval, fired, now, events, tracker,
                    discarded >>

\* SelectEvent that also resets the price when it drops the event.
SelectEventResetsPrice ==
    /\ pc = "select"
    /\ events # << >>
    /\ events' = Tail(events)
    /\ discarded' = discarded \cup {Head(events).id}
    /\ currentPrice' = MEAN_PRICE
    /\ UNCHANGED << config, pc, steps, producer, interval,
                    tickPending, fired, now, msgs, inflight, tracker, logs >>

\* main: select, case e := <-p.Events(): the event is received and dropped.
SelectEvent ==
    /\ pc = "select"
    /\ events # << >>
    /\ events' = Tail(events)
    /\ discarded' = discarded \cup {Head(events).id}
    /\ UNCHANGED << config, pc, currentPrice, steps, producer, interval,
                    tickPending, fired, now, msgs, inflight, tracker, logs >>

\* ----------------------------------------------- broker and its events
\* The client delivers the report of an accepted message to Events().
DeliveryReport ==
    /\ Alive
    /\ producer = "open"
    /\ \E id \in inflight, err \in BOOLEAN :
         /\ inflight' = inflight \ {id}
         /\ events' = Append(events, [id |-> id, err |-> err])
         /\ msgs' = [msgs EXCEPT ![id].trail =
                         Append(@, IF err THEN "DeliveryFailed"
                                          ELSE "Delivered")]
    /\ UNCHANGED << config, pc, currentPrice, steps, producer, interval,
                    tickPending, fired, now, tracker, discarded, logs >>

\* deliveryReportHandler: for e := range p.Events() receives an event.
TrackerRecv ==
    /\ Alive
    /\ tpc = "wait"
    /\ events # << >>
    /\ tev' = Head(events)
    /\ events' = Tail(events)
    /\ tpc' = "process"
    /\ drained' = drained \cup {Head(events).id}
    /\ UNCHANGED << config, pc, currentPrice, steps, producer, interval,
                    tickPending, fired, now, msgs, inflight, discarded,
                    logs >>

\* deliveryReportHandler: the switch; a failed delivery is logged.
TrackerHandle ==
    /\ Alive
    /\ tpc = "process"
    /\ logs' = IF tev.err
               THEN logs \cup {[kind |-> "delivery_failed", id |-> tev.id]}
               ELSE logs
    /\ tev' = NoEvent
    /\ tpc' = "wait"
    /\ UNCHANGED << config, pc, currentPrice, steps, producer, interval,
                    tickPending, fired, now, msgs, inflight, events, drained,
                    discarded >>

\* deliveryReportHandler: the range loop ends when the channel is closed
\* and empty.
TrackerExit ==
    /\ Alive
    /\ tpc = "wait"
    /\ events = << >>
    /\ producer = "closed"
    /\ tpc' = "done"
    /\ UNCHANGED << config, pc, currentPrice, steps, producer, interval,
                    tickPending, fired, now, msgs, inflight, events, tev,
                    drained, discarded, logs >>

\* A termination signal (Ctrl+C): no handler is installed, the runtime ends
\* the process at once and no deferred call runs.
Signal ==
    /\ Alive
    /\ pc' = "killed"
    /\ UNCHANGED << config, currentPrice, steps, producer, interval, tickPending,
                    fired, now, msgs, inflight, events, tracker, discarded,
                    logs >>

Next ==
    \/ Validate
    \/ NewProducer
    \/ StartTracker
    \/ NewTicker
    \/ RunDeferred
    \/ Abort
    \/ TimerFire
    \/ Tick
    \/ SelectEvent
    \/ DeliveryReport
    \/ TrackerRecv
    \/ TrackerHandle
    \/ TrackerExit
    \/ Signal

Spec == Init /\ [][Next]_vars

\* ------------------------------------------------------------- claims
Ids == 1..Len(msgs)
Logged(kind, id) == [kind |-> kind, id |-> id] \in logs

C2_FailureLogged ==
    /\ drained \cap discarded = {}
    /\ \A i \in Ids :
         ( /\ Status(msgs[i]) = "DeliveryFailed"
           /\ i \in drained \cup discarded
           /\ ~(tpc = "process" /\ tev.id = i) )
         => (i \in drained /\ Logged("delivery_failed", i))

\* C3: a message whose p.Produce call failed is logged and dropped,
\* p.Produce is not called for it again, and the production loop stays in
\* its running state (unless a signal ends the process): a tick that is
\* pending after the failure can be handled.
C3_EnqueueFailureDropped ==
    \A i \in Ids :
        Has(msgs[i], "EnqueueFailed") =>
            /\ Status(msgs[i]) = "EnqueueFailed"
            /\ ~Has(msgs[i], "Enqueued")
            /\ Logged("produce_failed", i)
            /\ i \notin inflight
            /\ \A k \in 1..Len(events) : events[k].id # i
            /\ pc \in {"select", "killed"}
            /\ (pc = "select" /\ tickPending) => ENABLED Tick

\* The tick after a failed enqueue was handled: a new price, a new call of
\* p.Produce.
C3_Witness ==
    \E i \in Ids :
        /\ Status(msgs[i]) = "EnqueueFailed"
        /\ i < Len(msgs)
        /\ Has(msgs[i + 1], "Enqueued")

\* C4: in protobuf format a price whose cents lie outside the int32 range
\* makes the encoding fail: the message is dropped at marshalling and is
\* never encoded or enqueued with an altered cents value.
C4_OverflowRejected ==
    \A i \in Ids :
        (formatType = "protobuf" /\ ~FitsInt32(msgs[i].priceFloat))
        => Status(msgs[i]) = "MarshalFailed"

\* price * 100 rounded to the nearest integer, for a price that is not
\* negative.
RoundCents(p) ==
    p.hi * CentsPerLimb + (p.lo + UnitsPerCent \div 2) \div UnitsPerCent

\* C5: in protobuf format the cents field is price * 100 rounded to the
\* nearest integer, for every price in the representable range.
C5_CentsRounded ==
    \A i \in Ids :
        (formatType = "protobuf" /\ FitsInt32(msgs[i].priceFloat))
        => msgs[i].priceInt = RoundCents(msgs[i].priceFloat)

CrashStates == {"panic", "unwound", "crashed"}

\* C6: once startup succeeded with an allowed ticker, an allowed format, a
\* positive rate and a reachable broker, the process never panics.
C6_NoCrash ==
    ( /\ isValidTicker
      /\ isValidFormat
      /\ rateMsgsPs > 0
      /\ producer # "none" )
    => pc \notin CrashStates

\* The transitions of a message: the state machine of the design, and the
\* two drops.
Transitions ==
    { << "Created", "Encoded" >>, << "Encoded", "Enqueued" >>,
      << "Enqueued", "Delivered" >>, << "Enqueued", "DeliveryFailed" >>,
      << "Created", "MarshalFailed" >>, << "Encoded", "EnqueueFailed" >> }

\* C7: every message goes Created -> Encoded -> Enqueued -> Delivered or
\* DeliveryFailed, in this order only; Delivered and DeliveryFailed are
\* final; no message is handed to p.Produce a second time.
C7_StateMachine ==
    \A i \in Ids :
        LET t == msgs[i].trail
        IN  /\ t[1] = "Created"
            /\ \A k \in 1..(Len(t) - 1) : << t[k], t[k + 1] >> \in Transitions
            /\ Cardinality({k \in 1..Len(t) :
                   t[k] \in {"Enqueued", "EnqueueFailed"}}) <= 1

\* One message failed at p.Produce and stayed there, another went all the
\* way to a failed delivery that deliveryReportHandler received.
C7_Witness ==
    \E i, j \in Ids :
        /\ Status(msgs[i]) = "EnqueueFailed"
        /\ Status(msgs[j]) = "DeliveryFailed"
        /\ j \in drained

\* The messages handed to the producer and accepted.
Emitted == {i \in Ids : Has(msgs[i], "Enqueued")}

\* The price field of an emitted message is greater than 0.
PriceFieldPositive(m) ==
    IF formatType = "protobuf"
    THEN m.value.price > 0
    ELSE Positive(m.value.price)

\* C8: every emitted message carries a timestamp strictly greater than
\* that of the message emitted before it, and a price field greater than 0.
C8_EmittedOrdered ==
    /\ \A i, j \in Emitted : i < j => msgs[i].nanos < msgs[j].nanos
    /\ \A i \in Emitted : PriceFieldPositive(msgs[i])

\* C9: on every path by which the process ends after the producer was
\* created, p.Close() has run.
C9_ReleasedOnExit ==
    (Exited /\ producer # "none") => producer = "closed"

\* C10: with a ticker or format outside the allowed sets, or a rate that is
\* not positive, the process ends in the error exit: it does not panic, it
\* does not reach the loop, no price step is taken and no message is built.
C10_ConfigError ==
    ~(isValidTicker /\ isValidFormat /\ rateMsgsPs > 0)
    => /\ pc \notin CrashStates \cup {"select"}
       /\ msgs = << >>
       /\ currentPrice = MEAN_PRICE

\* C11: the interval is the integer quotient 1000 / rateMsgsPs in
\* milliseconds, truncated (333 for rate 3, 142 for rate 7); it is set
\* before the first tick and has this one value in every later state, so
\* every tick of the run is paced by it.
C11_IntervalFixed ==
    /\ interval # 0 =>
         /\ interval * rateMsgsPs <= 1000
         /\ (interval + 1) * rateMsgsPs > 1000
         /\ rateMsgsPs = 3 => interval = 333
         /\ rateMsgsPs = 7 => interval = 142
    /\ (pc = "select" \/ fired > 0 \/ msgs # << >>) => interval > 0

\* The run at rate 7 handled two ticks under the interval 142.
C11_Witness ==
    rateMsgsPs = 7 /\ interval = 142 /\ Len(msgs) >= 2

Steps == 1..Len(steps)

\* C13: with a zero noise term, a step taken at the price 100 returns
\* exactly 100 and leaves the current price at 100.
C13_FixedPoint ==
    \A k \in Steps :
        (steps[k].before = MEAN_PRICE /\ steps[k].sample = Num(0))
        => /\ steps[k].after = MEAN_PRICE
           /\ msgs[k].priceFloat = MEAN_PRICE
           /\ (k = Len(steps) => currentPrice = MEAN_PRICE)

\* Two successive steps without noise, both at 100.
C13_Witness ==
    /\ Len(steps) >= 2
    /\ \A k \in {1, 2} : steps[k].sample = Num(0) /\ steps[k].after = MEAN_PRICE

\* current + (mean - current) * reversionRate + noise.
RawPrice(current, sample) ==
    Add(current,
        Add(Quot(Sub(MEAN_PRICE, current), REVERSION_DIV),
            Scale(sample, VOLATILITY)))

\* C14: a step returns (and stores) the floor 0.01 whenever the raw updated
\* value is <= 0 and the raw value unchanged otherwise; with zero noise and
\* the price -1000 the raw value is -945 and the result is 0.01.
C14_FloorOrRaw ==
    /\ \A k \in Steps :
         LET raw == RawPrice(steps[k].before, steps[k].sample)
         IN  /\ steps[k].after = IF LeqZero(raw) THEN FLOOR_PRICE ELSE raw
             /\ (k = Len(steps) => currentPrice = steps[k].after)
    /\ RawPrice(Num(-1000 * Unit), Num(0)) = Num(-945 * Unit)
    /\ generatePrice(Num(-1000 * Unit), Num(0)) = FLOOR_PRICE

\* One step with a negative raw value returned the floor, another returned
\* its positive raw value.
C14_Witness ==
    \E k, j \in Steps :
        /\ IsNeg(RawPrice(steps[k].before, steps[k].sample))
        /\ steps[k].after = FLOOR_PRICE
        /\ Positive(RawPrice(steps[j].before, steps[j].sample))
        /\ steps[j].after # FLOOR_PRICE
\* The variables of the production loop and those of deliveryReportHandler.
\* The event stream (events) is the channel both receive from; logs is the
\* process's log output, not a variable of the program.
loopState ==
    << config, pc, currentPrice, steps, producer, interval, tickPending,
       fired, now, msgs, inflight, discarded >>

Handed(m) == Has(m, "Enqueued") \/ Has(m, "EnqueueFailed")

\* C15: every message given to p.Produce has its topic and its key equal to
\* the ticker of the command line, in json its payload's ticker field is
\* that ticker too, and the ticker never changes during the run.
C15_RoutedByTicker ==
    /\ []( \A i \in Ids :
             Handed(msgs[i]) =>
                /\ msgs[i].topic = tickerName
                /\ msgs[i].key = tickerName
                /\ tickerName \in allowedTickers
                /\ formatType = "json" => msgs[i].value.ticker = tickerName )
    /\ [][tickerName' = tickerName]_vars

\* Two json messages were given to p.Produce, one accepted and one refused.
C15_Witness ==
    /\ formatType = "json"
    /\ tickerName = "STK_TWO"
    /\ \E i, j \in Ids : /\ Has(msgs[i], "Enqueued")
                         /\ Has(msgs[j], "EnqueueFailed")
                         /\ msgs[i].key = "STK_TWO"
                         /\ msgs[j].topic = "STK_TWO"


\* The ticks the production loop has handled.
Handled == fired - (IF tickPending THEN 1 ELSE 0)

\* The calls of p.Produce made for message m.
ProduceCalls(m) ==
    Cardinality({ k \in 1..Len(m.trail) :
                    m.trail[k] \in {"Enqueued", "EnqueueFailed"} })

\* C16: each handled tick causes exactly one call of generatePrice and at
\* most one call of p.Produce; the payload given to p.Produce carries the
\* price that call of generatePrice returned (in protobuf its int32
\* conversion) and the time read on that tick; a tick whose marshalling
\* fails causes no call of p.Produce.
C16_OneStepPerTick ==
    /\ Len(steps) = Handled
    /\ Len(msgs) = Handled
    /\ \A i \in Ids :
         /\ ProduceCalls(msgs[i]) <= 1
         /\ msgs[i].priceFloat = steps[i].after
         /\ Handed(msgs[i]) =>
              /\ msgs[i].value.timestamp = steps[i].at
              /\ steps[i].at = i
              /\ IF formatType = "protobuf"
                 THEN msgs[i].value.price \in Int32Of(steps[i].after)
                 ELSE msgs[i].value.price = steps[i].after
         /\ Has(msgs[i], "MarshalFailed") =>
              /\ ProduceCalls(msgs[i]) = 0
              /\ msgs[i].value = NoValue
              /\ i \notin inflight \cup drained \cup discarded
              /\ \A k \in 1..Len(events) : events[k].id # i

\* Two ticks were handled with different prices: marshalling failed on the
\* first, the second was given to p.Produce.
C16_Witness ==
    /\ Handled = 2
    /\ Len(msgs) = 2
    /\ Status(msgs[1]) = "MarshalFailed"
    /\ Handed(msgs[2])
    /\ steps[1].after # steps[2].after
    /\ msgs[2].value.timestamp = 2


\* The price after the first k calls of generatePrice, computed from the
\* starting price and the samples alone.
RECURSIVE PriceAfter(_)
PriceAfter(k) ==
    IF k = 0
    THEN MEAN_PRICE
    ELSE generatePrice(PriceAfter(k - 1), steps[k].sample)

\* C17: the current price is changed only by generatePrice: a step that
\* consumes a delivery event (in deliveryReportHandler or in the loop's
\* event case) and the outcome of p.Produce leave it as it is, so the
\* prices are a function of the number of handled ticks and their samples.
C17_PriceOnlyByStep ==
    /\ []( /\ currentPrice = PriceAfter(Len(steps))
           /\ \A k \in Steps :
                /\ steps[k].after = PriceAfter(k)
                /\ steps[k].before = PriceAfter(k - 1)
                /\ msgs[k].priceFloat = PriceAfter(k) )
    /\ [][ (steps' = steps) => (currentPrice' = currentPrice) ]_vars
    /\ [][ (events' # events \/ tracker' # tracker \/ discarded' # discarded)
             => (currentPrice' = currentPrice /\ steps' = steps) ]_vars

\* Two steps moved the price; the report of the first message was consumed
\* by deliveryReportHandler and that of the second by the loop's event case.
C17_Witness ==
    /\ Len(steps) = 2
    /\ drained = {1}
    /\ discarded = {2}
    /\ currentPrice = steps[2].after
    /\ steps[1].after # MEAN_PRICE
    /\ steps[2].after # steps[1].after


\* The distance |p - 100| and the side of 100 that p lies on.
Dist(p) == Mag(Sub(p, MEAN_PRICE))
Below(p) == IsNeg(Sub(p, MEAN_PRICE))
Leq(a, b) == LeqZero(Sub(a, b))

\* The steps taken with a sample of 0 from a price greater than 0.
ZeroSteps ==
    { k \in Steps : steps[k].sample = Num(0) /\ Positive(steps[k].before) }

\* The distance after the step is exactly 0.95 times the distance before
\* it (20 d' = 19 d), and the price stays on its side of 100 without
\* reaching it.
C18_ExactDecay ==
    \A k \in ZeroSteps :
        LET d == Dist(steps[k].before)
            e == Dist(steps[k].after)
        IN  /\ Scale(e, REVERSION_DIV) = Scale(d, REVERSION_DIV - 1)
            /\ ~IsZero(d) => /\ ~IsZero(e)
                             /\ Below(steps[k].after) = Below(steps[k].before)

\* The largest difference between 20 d' and 19 d that rounding the pull to
\* the resolution can cause: half a unit of resolution, times 20.
RoundingSlack == REVERSION_DIV \div 2

\* C18: with a sample of 0 and a current price greater than 0, a call of
\* generatePrice never moves the price away from 100 and never reaches or
\* crosses 100 from a price that was not there: the distance after the
\* call is 0.95 times the distance before it up to the rounding of the
\* arithmetic, it is smaller than before unless the pull rounds to nothing,
\* and the price stays on the same side of 100.
C18_DecayWithinRounding ==
    \A k \in ZeroSteps :
        LET d == Dist(steps[k].before)
            e == Dist(steps[k].after)
            err == Mag(Sub(Scale(e, REVERSION_DIV),
                           Scale(d, REVERSION_DIV - 1)))
        IN  /\ Leq(err, Num(RoundingSlack))
            /\ Leq(e, d)
            /\ Leq(Num(RoundingSlack), d) => e # d
            /\ IsZero(d) => IsZero(e)
            /\ ~IsZero(d) => /\ ~IsZero(e)
                             /\ Below(steps[k].after) = Below(steps[k].before)

\* A step with sample 0 from the price 0.005, where 0.95 times the distance
\* is not a multiple of the resolution: the price moved toward 100, not by
\* exactly that factor.
C18_Witness ==
    \E k \in ZeroSteps :
        /\ steps[k].before = Num(Unit \div 200)
        /\ Below(steps[k].after)
        /\ Dist(steps[k].after) # Dist(steps[k].before)
        /\ Scale(Dist(steps[k].after), REVERSION_DIV)
             # Scale(Dist(steps[k].before), REVERSION_DIV - 1)

====
